---- MODULE Spec2Model ----
(***************************************************************************)
(* The ASN.1 BER/DER subset decoder of bootable/recovery.                  *)
(*                                                                         *)
(* The repository holds two revisions of asn1_decoder.c:                   *)
(*   src/unnamed/part_001  the counter revision: a context is a position   *)
(*                         and a count of remaining bytes, every byte is   *)
(*                         taken through get_byte;                         *)
(*   src/unnamed/part_000  the pointer revision: a context is a buffer     *)
(*                         start, a total length and a read pointer; the   *)
(*                         bytes are read through the raw pointer.         *)
(* The variable rev says which revision is compiled in.  Definitions of    *)
(* the pointer revision carry the suffix _ptr.                             *)
(*                                                                         *)
(* Pointers are modelled as 0-based offsets into the caller's buffer, so   *)
(* the byte *q of the program is buf[q + 1].  A read outside the buffer is *)
(* undefined behaviour: it yields an arbitrary byte (the junk argument g). *)
(***************************************************************************)
EXTENDS Integers, Sequences, FiniteSets, TLC

VARIABLES buf, rev, ctxs, last, step

vars == <<buf, rev, ctxs, last, step>>

(***************************************************************************)
(* Bounds of the model.                                                    *)
(***************************************************************************)
MaxLen == 2        \* buffers over ByteSet up to this length, over DeepBytes
                   \* up to two bytes more
MaxCtx == 3        \* contexts kept alive at once (root + derived)
MaxStr == 2        \* longest OCTET STRING content in the iteration driver
MaxRun == 3        \* calls of one cursor primitive in a row on one context

\* sizeof(size_t) of the 32-bit build (the width of Scenario C).
SizeofSizeT == 4

\* 0x00 0x01 0x04 0x06 0x30 0x31 0x80 0x81 0xA0 0xBF: every tag the decoder
\* knows, short lengths, the long forms with N = 0 and N = 1, and two bytes
\* (0xA0, 0xBF) that as a length octet announce N >= SizeofSizeT.
ByteSet == {0, 1, 4, 6, 48, 49, 128, 129, 160, 191}

SeqsUpTo(S, n) == UNION {[1..k -> S] : k \in 0..n}

ScenarioA == <<48, 3, 6, 1, 42>>
ScenarioB == <<48, 5, 6, 1, 42>>
ScenarioC == <<48, 132, 0, 0, 0, 1, 0>>
ScenarioNested == <<160, 6, 49, 4, 4, 2, 1, 0>>
ScenarioLong == <<48, 129, 2, 6, 0>>
ScenarioBF == <<191, 2, 4, 0>>
ScenarioSiblings == <<48, 0, 6, 1, 1, 4, 0>>
ScenarioLong2 == <<4, 130, 1, 0>>
ScenarioLong3 == <<6, 131, 255, 255, 255>>
ScenarioTruncated == <<4, 130, 1>>

Scenarios == {ScenarioA, ScenarioB, ScenarioC, ScenarioNested, ScenarioLong,
              ScenarioBF, ScenarioSiblings,
              ScenarioLong2, ScenarioLong3, ScenarioTruncated}

\* 0x00 0x04 0x30 0x80: enough for nested and consecutive elements.
DeepBytes == {0, 4, 48, 128}

Buffers == SeqsUpTo(ByteSet, MaxLen) \cup SeqsUpTo(DeepBytes, MaxLen + 2)
             \cup Scenarios

InBuf == 0..(Len(buf) - 1)

\* The junk a call finds behind the buffer: g[1] in the first cell past the
\* end (any byte), g[2] in the cells after it (a short or a long length form).
J0 == <<0, 0>>
JunkTail == {0, 129}
Junk == ByteSet \X JunkTail

Mem(i, g) == IF i \in InBuf THEN buf[i + 1]
             ELSE IF i = Len(buf) THEN g[1] ELSE g[2]

\* length <<= 8; length += byte; in a size_t of SizeofSizeT bytes
\* (the top byte is shifted out).
ShiftAdd(length, byte) ==
  (length % (2 ^ (8 * (SizeofSizeT - 1)))) * 256 + byte

(***************************************************************************)
(* Results of a call.  dl describes the call's decode_length: whether it   *)
(* was reached, its verdict, the decoded length, the offset of the first   *)
(* length octet and the number of octets it consumed.                      *)
(***************************************************************************)
NoDL == [called |-> FALSE, ok |-> FALSE, len |-> 0, at |-> 0, used |-> 0]

Result(ok, ctx, kind, off, len, type, reads, dl) ==
  [ok |-> ok, ctx |-> ctx, kind |-> kind, off |-> off, len |-> len,
   app_type |-> type, reads |-> reads, dl |-> dl]

Failure(ctx, reads, dl) == Result(FALSE, ctx, "none", 0, 0, 0, reads, dl)

(***************************************************************************)
(* The counter revision, src/unnamed/part_001.                             *)
(***************************************************************************)
asn1_context_new(buffer, length) ==
  [p |-> buffer, length |-> length, app_type |-> 0]

\* peek_byte consuming the byte it returns, as get_byte does.
peek_byte_take(ctx, g) ==
  IF ctx.length <= 0
  THEN [byte |-> -1, ctx |-> ctx, reads |-> {}]
  ELSE [byte |-> Mem(ctx.p, g),
        ctx |-> [ctx EXCEPT !.p = @ + 1, !.length = @ - 1],
        reads |-> {ctx.p}]

\* peek_byte assigns nothing: the context it leaves is the one it was given.
peek_byte(ctx, g) ==
  IF ctx.length <= 0
  THEN [byte |-> -1, ctx |-> ctx, reads |-> {}]
  ELSE [byte |-> Mem(ctx.p, g), ctx |-> ctx, reads |-> {ctx.p}]

\* get_byte without the test ctx->length <= 0.
get_byte_nocheck(ctx, g) ==
  [byte |-> Mem(ctx.p, g),
   ctx |-> [ctx EXCEPT !.p = @ + 1, !.length = @ - 1],
   reads |-> {ctx.p}]

get_byte(ctx, g) ==
  IF ctx.length <= 0
  THEN [byte |-> -1, ctx |-> ctx, reads |-> {}]
  ELSE [byte |-> Mem(ctx.p, g),
        ctx |-> [ctx EXCEPT !.p = @ + 1, !.length = @ - 1],
        reads |-> {ctx.p}]

\* skip_bytes skipping what is left when num_skip is too large.
skip_bytes_partial(ctx, num_skip) ==
  IF ctx.length < num_skip
  THEN [ok |-> FALSE,
        ctx |-> [ctx EXCEPT !.p = @ + ctx.length, !.length = 0]]
  ELSE [ok |-> TRUE,
        ctx |-> [ctx EXCEPT !.p = @ + num_skip, !.length = @ - num_skip]]

skip_bytes(ctx, num_skip) ==
  IF ctx.length < num_skip
  THEN [ok |-> FALSE, ctx |-> ctx]
  ELSE [ok |-> TRUE,
        ctx |-> [ctx EXCEPT !.p = @ + num_skip, !.length = @ - num_skip]]

\* The for loop of decode_length: i octets taken so far.
RECURSIVE length_loop(_, _, _, _, _, _)
length_loop(ctx, i, num_octets, length, reads, g) ==
  IF i >= num_octets
  THEN [ok |-> TRUE, len |-> length, ctx |-> ctx, reads |-> reads]
  ELSE LET b == get_byte(ctx, g) IN
       IF b.byte = -1
       THEN [ok |-> FALSE, len |-> 0, ctx |-> b.ctx, reads |-> reads]
       ELSE length_loop(b.ctx, i + 1, num_octets, ShiftAdd(length, b.byte),
                        reads \cup b.reads, g)

\* decode_length with the guard written > instead of >=.
decode_length_gt(ctx, g) ==
  LET b == get_byte(ctx, g) IN
  IF b.byte = -1
  THEN [ok |-> FALSE, len |-> 0, ctx |-> b.ctx, reads |-> b.reads]
  ELSE IF b.byte < 128
  THEN [ok |-> TRUE, len |-> b.byte, ctx |-> b.ctx, reads |-> b.reads]
  ELSE IF (b.byte % 128) > SizeofSizeT
  THEN [ok |-> FALSE, len |-> 0, ctx |-> b.ctx, reads |-> b.reads]
  ELSE length_loop(b.ctx, 0, b.byte % 128, 0, b.reads, g)

decode_length(ctx, g) ==
  LET b == get_byte(ctx, g) IN
  IF b.byte = -1
  THEN [ok |-> FALSE, len |-> 0, ctx |-> b.ctx, reads |-> b.reads]
  ELSE IF b.byte < 128
  THEN [ok |-> TRUE, len |-> b.byte, ctx |-> b.ctx, reads |-> b.reads]
  ELSE IF (b.byte % 128) >= SizeofSizeT
  THEN [ok |-> FALSE, len |-> 0, ctx |-> b.ctx, reads |-> b.reads]
  ELSE length_loop(b.ctx, 0, b.byte % 128, 0, b.reads, g)

\* The record of a decode_length that started on ctx and returned d.
DL(ctx, d) == [called |-> TRUE, ok |-> d.ok, len |-> d.len, at |-> ctx.p,
               used |-> d.ctx.p - ctx.p]

\* asn1_constructed_get masking the tag number with 0x0F instead of 0x1F.
asn1_constructed_get_mask0F(ctx, g) ==
  LET t == get_byte(ctx, g) IN
  IF t.byte = -1 \/ (t.byte - (t.byte % 32)) # 160
  THEN Failure(t.ctx, t.reads, NoDL)
  ELSE LET d == decode_length(t.ctx, g) IN
       IF (~d.ok) \/ d.len > d.ctx.length
       THEN Failure(d.ctx, t.reads \cup d.reads, DL(t.ctx, d))
       ELSE Result(TRUE, d.ctx, "child", d.ctx.p, d.len, t.byte % 16,
                   t.reads \cup d.reads, DL(t.ctx, d))

asn1_constructed_get(ctx, g) ==
  LET t == get_byte(ctx, g) IN
  IF t.byte = -1 \/ (t.byte - (t.byte % 32)) # 160
  THEN Failure(t.ctx, t.reads, NoDL)
  ELSE LET d == decode_length(t.ctx, g) IN
       IF (~d.ok) \/ d.len > d.ctx.length
       THEN Failure(d.ctx, t.reads \cup d.reads, DL(t.ctx, d))
       ELSE Result(TRUE, d.ctx, "child", d.ctx.p, d.len, t.byte % 32,
                   t.reads \cup d.reads, DL(t.ctx, d))

asn1_constructed_type(ctx) == ctx.app_type

\* asn1_sequence_get handing the child all that remains of the parent.
asn1_sequence_get_rest(ctx, g) ==
  LET t == get_byte(ctx, g) IN
  IF (t.byte % 128) # 48
  THEN Failure(t.ctx, t.reads, NoDL)
  ELSE LET d == decode_length(t.ctx, g) IN
       IF (~d.ok) \/ d.len > d.ctx.length
       THEN Failure(d.ctx, t.reads \cup d.reads, DL(t.ctx, d))
       ELSE Result(TRUE, d.ctx, "child", d.ctx.p, d.ctx.length, 0,
                   t.reads \cup d.reads, DL(t.ctx, d))

asn1_sequence_get(ctx, g) ==
  LET t == get_byte(ctx, g) IN
  IF (t.byte % 128) # 48
  THEN Failure(t.ctx, t.reads, NoDL)
  ELSE LET d == decode_length(t.ctx, g) IN
       IF (~d.ok) \/ d.len > d.ctx.length
       THEN Failure(d.ctx, t.reads \cup d.reads, DL(t.ctx, d))
       ELSE Result(TRUE, d.ctx, "child", d.ctx.p, d.len, 0,
                   t.reads \cup d.reads, DL(t.ctx, d))

asn1_set_get(ctx, g) ==
  LET t == get_byte(ctx, g) IN
  IF (t.byte % 128) # 49
  THEN Failure(t.ctx, t.reads, NoDL)
  ELSE LET d == decode_length(t.ctx, g) IN
       IF (~d.ok) \/ d.len > d.ctx.length
       THEN Failure(d.ctx, t.reads \cup d.reads, DL(t.ctx, d))
       ELSE Result(TRUE, d.ctx, "child", d.ctx.p, d.len, 0,
                   t.reads \cup d.reads, DL(t.ctx, d))

asn1_sequence_next(ctx, g) ==
  LET t == get_byte(ctx, g) IN
  IF t.byte = -1
  THEN Failure(t.ctx, t.reads, NoDL)
  ELSE LET d == decode_length(t.ctx, g) IN
       IF ~d.ok
       THEN Failure(d.ctx, t.reads \cup d.reads, DL(t.ctx, d))
       ELSE LET s == skip_bytes(d.ctx, d.len) IN
            IF ~s.ok
            THEN Failure(s.ctx, t.reads \cup d.reads, DL(t.ctx, d))
            ELSE Result(TRUE, s.ctx, "none", 0, 0, 0,
                        t.reads \cup d.reads, DL(t.ctx, d))

\* asn1_oid_get without the comparison *length > ctx->length.
asn1_oid_get_nofit(ctx, g) ==
  LET t == get_byte(ctx, g) IN
  IF t.byte # 6
  THEN Failure(t.ctx, t.reads, NoDL)
  ELSE LET d == decode_length(t.ctx, g) IN
       IF ~d.ok
       THEN Failure(d.ctx, t.reads \cup d.reads, DL(t.ctx, d))
       ELSE Result(TRUE, d.ctx, "view", d.ctx.p, d.len, 0,
                   t.reads \cup d.reads, DL(t.ctx, d))

asn1_oid_get(ctx, g) ==
  LET t == get_byte(ctx, g) IN
  IF t.byte # 6
  THEN Failure(t.ctx, t.reads, NoDL)
  ELSE LET d == decode_length(t.ctx, g) IN
       IF (~d.ok) \/ d.len > d.ctx.length
       THEN Failure(d.ctx, t.reads \cup d.reads, DL(t.ctx, d))
       ELSE Result(TRUE, d.ctx, "view", d.ctx.p, d.len, 0,
                   t.reads \cup d.reads, DL(t.ctx, d))

asn1_octet_string_get(ctx, g) ==
  LET t == get_byte(ctx, g) IN
  IF t.byte # 4
  THEN Failure(t.ctx, t.reads, NoDL)
  ELSE LET d == decode_length(t.ctx, g) IN
       IF (~d.ok) \/ d.len > d.ctx.length
       THEN Failure(d.ctx, t.reads \cup d.reads, DL(t.ctx, d))
       ELSE Result(TRUE, d.ctx, "view", d.ctx.p, d.len, 0,
                   t.reads \cup d.reads, DL(t.ctx, d))

(***************************************************************************)
(* The pointer revision, src/unnamed/part_000.  A context also keeps the   *)
(* start of its range; nothing checks a pointer before it is read.         *)
(***************************************************************************)
asn1_context_new_ptr(buffer, length) ==
  [buffer |-> buffer, length |-> length, app_type |-> 0, p |-> buffer]

\* The for loop of decode_length: p runs from *start + 1 to end.
RECURSIVE length_loop_ptr(_, _, _, _, _)
length_loop_ptr(p, end, length, reads, g) ==
  IF p = end
  THEN [ok |-> TRUE, len |-> length, start |-> end, reads |-> reads]
  ELSE length_loop_ptr(p + 1, end, ShiftAdd(length, Mem(p, g)),
                       reads \cup {p}, g)

\* decode_length refusing the octet 0x80 (N = 0) as an indefinite length.
decode_length_ptr_noindef(start, g) ==
  LET num_octets == Mem(start, g) IN
  IF num_octets < 128
  THEN [ok |-> TRUE, len |-> num_octets, start |-> start + 1,
        reads |-> {start}]
  ELSE IF (num_octets % 128) >= SizeofSizeT \/ (num_octets % 128) = 0
  THEN [ok |-> FALSE, len |-> 0, start |-> start, reads |-> {start}]
  ELSE length_loop_ptr(start + 1, start + 1 + (num_octets % 128), 0,
                       {start}, g)

decode_length_ptr(start, g) ==
  LET num_octets == Mem(start, g) IN
  IF num_octets < 128
  THEN [ok |-> TRUE, len |-> num_octets, start |-> start + 1,
        reads |-> {start}]
  ELSE IF (num_octets % 128) >= SizeofSizeT
  THEN [ok |-> FALSE, len |-> 0, start |-> start, reads |-> {start}]
  ELSE length_loop_ptr(start + 1, start + 1 + (num_octets % 128), 0,
                       {start}, g)

\* The record of a decode_length that was given start and returned d.
DLptr(start, d) == [called |-> TRUE, ok |-> d.ok, len |-> d.len,
                    at |-> start, used |-> d.start - start]

\* (p - ctx->buffer) + length > ctx->length.  The sum stays below
\* 2^24 + Len(buf) + SizeofSizeT, so it cannot wrap a 32-bit size_t here.
past_end_ptr(ctx, p, length) == (p - ctx.buffer) + length > ctx.length

asn1_constructed_get_ptr(ctx, g) ==
  LET type == Mem(ctx.p, g) IN
  IF (type - (type % 32)) # 160
  THEN Failure(ctx, {ctx.p}, NoDL)
  ELSE LET d == decode_length_ptr(ctx.p + 1, g) IN
       IF (~d.ok) \/ past_end_ptr(ctx, d.start, d.len)
       THEN Failure(ctx, {ctx.p} \cup d.reads, DLptr(ctx.p + 1, d))
       ELSE Result(TRUE, ctx, "child", d.start, d.len, type % 32,
                   {ctx.p} \cup d.reads, DLptr(ctx.p + 1, d))

asn1_constructed_type_ptr(ctx) == ctx.app_type

asn1_sequence_get_ptr(ctx, g) ==
  IF (Mem(ctx.p, g) % 128) # 48
  THEN Failure(ctx, {ctx.p}, NoDL)
  ELSE LET d == decode_length_ptr(ctx.p + 1, g) IN
       IF (~d.ok) \/ past_end_ptr(ctx, d.start, d.len)
       THEN Failure(ctx, {ctx.p} \cup d.reads, DLptr(ctx.p + 1, d))
       ELSE Result(TRUE, ctx, "child", d.start, d.len, 0,
                   {ctx.p} \cup d.reads, DLptr(ctx.p + 1, d))

asn1_set_get_ptr(ctx, g) ==
  IF (Mem(ctx.p, g) % 128) # 49
  THEN Failure(ctx, {ctx.p}, NoDL)
  ELSE LET d == decode_length_ptr(ctx.p + 1, g) IN
       IF (~d.ok) \/ past_end_ptr(ctx, d.start, d.len)
       THEN Failure(ctx, {ctx.p} \cup d.reads, DLptr(ctx.p + 1, d))
       ELSE Result(TRUE, ctx, "child", d.start, d.len, 0,
                   {ctx.p} \cup d.reads, DLptr(ctx.p + 1, d))

\* asn1_sequence_next stepping over the tag + length header only.
asn1_sequence_next_ptr_hdr(seq, g) ==
  LET d == decode_length_ptr(seq.p + 1, g) IN
  IF ~d.ok
  THEN Failure(seq, d.reads, DLptr(seq.p + 1, d))
  ELSE IF past_end_ptr(seq, d.start, d.len)
  THEN Failure(seq, d.reads, DLptr(seq.p + 1, d))
  ELSE Result(TRUE, [seq EXCEPT !.p = d.start], "none", 0, 0, 0,
              d.reads, DLptr(seq.p + 1, d))

\* The tag byte at seq->p is never read.
asn1_sequence_next_ptr(seq, g) ==
  LET d == decode_length_ptr(seq.p + 1, g) IN
  IF ~d.ok
  THEN Failure(seq, d.reads, DLptr(seq.p + 1, d))
  ELSE IF past_end_ptr(seq, d.start, d.len)
  THEN Failure(seq, d.reads, DLptr(seq.p + 1, d))
  ELSE Result(TRUE, [seq EXCEPT !.p = d.start + d.len], "none", 0, 0, 0,
              d.reads, DLptr(seq.p + 1, d))

\* No comparison of the decoded length with the context's length.
asn1_oid_get_ptr(ctx, g) ==
  IF Mem(ctx.p, g) # 6
  THEN Failure(ctx, {ctx.p}, NoDL)
  ELSE LET d == decode_length_ptr(ctx.p + 1, g) IN
       IF ~d.ok
       THEN Failure(ctx, {ctx.p} \cup d.reads, DLptr(ctx.p + 1, d))
       ELSE Result(TRUE, ctx, "view", d.start, d.len, 0,
                   {ctx.p} \cup d.reads, DLptr(ctx.p + 1, d))

asn1_octet_string_get_ptr(ctx, g) ==
  IF Mem(ctx.p, g) # 4
  THEN Failure(ctx, {ctx.p}, NoDL)
  ELSE LET d == decode_length_ptr(ctx.p + 1, g) IN
       IF ~d.ok
       THEN Failure(ctx, {ctx.p} \cup d.reads, DLptr(ctx.p + 1, d))
       ELSE Result(TRUE, ctx, "view", d.start, d.len, 0,
                   {ctx.p} \cup d.reads, DLptr(ctx.p + 1, d))

(***************************************************************************)
(* The state machine: the caller owns buf and a few live contexts and      *)
(* calls the extractors on them in any order.                              *)
(***************************************************************************)
Pos(c) == c.p

Remaining(c) == IF rev = "counter" THEN c.length
                ELSE c.buffer + c.length - c.p

\* last.byte is what peek_byte / get_byte returned, last.arg the num_skip
\* given to skip_bytes, last.run the number of calls of last.op made in a
\* row on context last.i (counted for the cursor primitives only).
NoCall == [op |-> "none", i |-> 0, ok |-> FALSE, pre |-> <<>>,
           post |-> <<>>, kind |-> "none", off |-> 0, len |-> 0,
           app_type |-> 0, reads |-> {}, dl |-> NoDL, new |-> 0,
           byte |-> -1, arg |-> 0, run |-> 0]

\* The context a successful constructed/sequence/set get returns.
Child(r) ==
  IF rev = "counter"
  THEN [asn1_context_new(r.off, r.len) EXCEPT !.app_type = r.app_type]
  ELSE [asn1_context_new_ptr(r.off, r.len) EXCEPT !.app_type = r.app_type]

\* The call op on context i returned r: the context is updated in place, a
\* returned child is kept while there is room (and freed at once otherwise).
\* last.new is the index of the child kept, 0 if none; s is the caller's
\* next step.
CommitStep(op, i, r, s) ==
  LET keep == r.ok /\ r.kind = "child" /\ Len(ctxs) < MaxCtx IN
  /\ ctxs' = IF keep
             THEN Append([ctxs EXCEPT ![i] = r.ctx], Child(r))
             ELSE [ctxs EXCEPT ![i] = r.ctx]
  /\ last' = [op |-> op, i |-> i, ok |-> r.ok, pre |-> ctxs[i],
              post |-> r.ctx, kind |-> r.kind, off |-> r.off,
              len |-> r.len, app_type |-> r.app_type, reads |-> r.reads,
              dl |-> r.dl, new |-> IF keep THEN Len(ctxs) + 1 ELSE 0,
              byte |-> -1, arg |-> 0, run |-> 0]
  /\ step' = s
  /\ UNCHANGED <<buf, rev>>

Commit(op, i, r) == CommitStep(op, i, r, step)

\* The junk that matters to a call: none when the call stays in the buffer.
Junks(F(_, _), c) == IF F(c, J0).reads \subseteq InBuf THEN {J0} ELSE Junk

\* What a call of F on c can return.
Outcomes(F(_, _), c) == {F(c, g) : g \in Junks(F, c)}

ConstructedGet ==
  \E i \in 1..Len(ctxs) :
    /\ rev = "counter" /\ step = 0
    /\ \E r \in Outcomes(asn1_constructed_get, ctxs[i]) :
         Commit("constructed_get", i, r)

SequenceGet ==
  \E i \in 1..Len(ctxs) :
    /\ rev = "counter" /\ step = 0
    /\ \E r \in Outcomes(asn1_sequence_get, ctxs[i]) :
         Commit("sequence_get", i, r)

SetGet ==
  \E i \in 1..Len(ctxs) :
    /\ rev = "counter" /\ step = 0
    /\ \E r \in Outcomes(asn1_set_get, ctxs[i]) :
         Commit("set_get", i, r)

SequenceNext ==
  \E i \in 1..Len(ctxs) :
    /\ rev = "counter" /\ step = 0
    /\ \E r \in Outcomes(asn1_sequence_next, ctxs[i]) :
         Commit("sequence_next", i, r)

OidGet ==
  \E i \in 1..Len(ctxs) :
    /\ rev = "counter" /\ step = 0
    /\ \E r \in Outcomes(asn1_oid_get, ctxs[i]) :
         Commit("oid_get", i, r)

OctetStringGet ==
  \E i \in 1..Len(ctxs) :
    /\ rev = "counter" /\ step = 0
    /\ \E r \in Outcomes(asn1_octet_string_get, ctxs[i]) :
         Commit("octet_string_get", i, r)

ConstructedGetPtr ==
  \E i \in 1..Len(ctxs) :
    /\ rev = "pointer" /\ step = 0
    /\ \E r \in Outcomes(asn1_constructed_get_ptr, ctxs[i]) :
         Commit("constructed_get", i, r)

SequenceGetPtr ==
  \E i \in 1..Len(ctxs) :
    /\ rev = "pointer" /\ step = 0
    /\ \E r \in Outcomes(asn1_sequence_get_ptr, ctxs[i]) :
         Commit("sequence_get", i, r)

SetGetPtr ==
  \E i \in 1..Len(ctxs) :
    /\ rev = "pointer" /\ step = 0
    /\ \E r \in Outcomes(asn1_set_get_ptr, ctxs[i]) :
         Commit("set_get", i, r)

SequenceNextPtr ==
  \E i \in 1..Len(ctxs) :
    /\ rev = "pointer" /\ step = 0
    /\ \E r \in Outcomes(asn1_sequence_next_ptr, ctxs[i]) :
         Commit("sequence_next", i, r)

OidGetPtr ==
  \E i \in 1..Len(ctxs) :
    /\ rev = "pointer" /\ step = 0
    /\ \E r \in Outcomes(asn1_oid_get_ptr, ctxs[i]) :
         Commit("oid_get", i, r)

OctetStringGetPtr ==
  \E i \in 1..Len(ctxs) :
    /\ rev = "pointer" /\ step = 0
    /\ \E r \in Outcomes(asn1_octet_string_get_ptr, ctxs[i]) :
         Commit("octet_string_get", i, r)

\* The root context: asn1_context_new over the whole buffer.
Root == IF rev = "counter" THEN asn1_context_new(0, Len(buf))
        ELSE asn1_context_new_ptr(0, Len(buf))

InitCounter ==
  /\ buf \in Buffers
  /\ rev = "counter"
  /\ ctxs = <<Root>>
  /\ last = NoCall
  /\ step = 0

InitPointer ==
  /\ buf \in Buffers
  /\ rev = "pointer"
  /\ ctxs = <<Root>>
  /\ last = NoCall
  /\ step = 0

Init == InitCounter \/ InitPointer

NextCounter ==
  \/ ConstructedGet
  \/ SequenceGet
  \/ SetGet
  \/ SequenceNext
  \/ OidGet
  \/ OctetStringGet

NextPointer ==
  \/ ConstructedGetPtr
  \/ SequenceGetPtr
  \/ SetGetPtr
  \/ SequenceNextPtr
  \/ OidGetPtr
  \/ OctetStringGetPtr

Next == NextCounter \/ NextPointer

Spec == Init /\ [][Next]_vars

SpecCounter == InitCounter /\ [][NextCounter]_vars

SpecPointer == InitPointer /\ [][NextPointer]_vars

(***************************************************************************)
(* The cursor primitives of the counter revision called on their own:      *)
(* peek_byte, get_byte and skip_bytes are static, so this is the harness   *)
(* of a unit test placed in part_001, starting from a root context.        *)
(***************************************************************************)
\* 2^31 - 1, the largest integer the model can hold (a size_t of
\* SizeofSizeT bytes goes up to 2^32 - 1).
IntMax == (2 ^ 30 - 1) * 2 + 1

\* num_skip: every small count, the largest decodable length, and the
\* largest values that can be written.
SkipArgs == 0..(MaxLen + 3)
              \cup {2 ^ (8 * (SizeofSizeT - 1)) - 1, IntMax - 1, IntMax}

Run(op, i) == IF last.op = op /\ last.i = i THEN last.run ELSE 0

\* The primitive op on context i returned (ok, byte) and left ctx.
CommitCursor(op, i, ok, ctx, byte, arg, reads) ==
  /\ Run(op, i) < MaxRun
  /\ ctxs' = [ctxs EXCEPT ![i] = ctx]
  /\ last' = [NoCall EXCEPT !.op = op, !.i = i, !.ok = ok,
                            !.pre = ctxs[i], !.post = ctx,
                            !.reads = reads, !.byte = byte, !.arg = arg,
                            !.run = Run(op, i) + 1]
  /\ UNCHANGED <<buf, rev, step>>

PeekByte ==
  \E i \in 1..Len(ctxs) :
    /\ rev = "counter" /\ step = 0
    /\ \E r \in Outcomes(peek_byte, ctxs[i]) :
         CommitCursor("peek_byte", i, r.byte # -1, r.ctx, r.byte, 0, r.reads)

GetByte ==
  \E i \in 1..Len(ctxs) :
    /\ rev = "counter" /\ step = 0
    /\ \E r \in Outcomes(get_byte, ctxs[i]) :
         CommitCursor("get_byte", i, r.byte # -1, r.ctx, r.byte, 0, r.reads)

SkipBytes ==
  \E i \in 1..Len(ctxs) :
    /\ rev = "counter" /\ step = 0
    /\ \E num_skip \in SkipArgs :
         LET r == skip_bytes(ctxs[i], num_skip) IN
         CommitCursor("skip_bytes", i, r.ok, r.ctx, -1, num_skip, {})

NextCursor == PeekByte \/ GetByte \/ SkipBytes

SpecCursor == InitCounter /\ [][NextCursor]_vars

(***************************************************************************)
(* The caller of Scenario E: it enters a SET of three OCTET STRINGs and    *)
(* walks the body with octet_string_get / sequence_next on one context.    *)
(* step counts the caller's calls: 1 set_get, 2 4 6 octet_string_get,      *)
(* 3 5 7 8 sequence_next, 9 done.                                          *)
(***************************************************************************)
StrContents == SeqsUpTo({4, 170}, MaxStr)

OctetString(s) == <<4, Len(s)>> \o s

SetOfThree(s1, s2, s3) ==
  LET body == OctetString(s1) \o OctetString(s2) \o OctetString(s3) IN
  <<49, Len(body)>> \o body

InitE ==
  /\ \E s1, s2, s3 \in StrContents : buf = SetOfThree(s1, s2, s3)
  /\ rev \in {"counter", "pointer"}
  /\ ctxs = <<Root>>
  /\ last = NoCall
  /\ step = 1

IterEnter ==
  /\ step = 1
  /\ \/ /\ rev = "counter"
        /\ CommitStep("set_get", 1, asn1_set_get(ctxs[1], J0), 2)
     \/ /\ rev = "pointer"
        /\ CommitStep("set_get", 1, asn1_set_get_ptr(ctxs[1], J0), 2)

IterGet ==
  /\ step \in {2, 4, 6}
  /\ Len(ctxs) >= 2
  /\ \/ /\ rev = "counter"
        /\ \E r \in Outcomes(asn1_octet_string_get, ctxs[2]) :
             CommitStep("octet_string_get", 2, r, step + 1)
     \/ /\ rev = "pointer"
        /\ \E r \in Outcomes(asn1_octet_string_get_ptr, ctxs[2]) :
             CommitStep("octet_string_get", 2, r, step + 1)

IterNext ==
  /\ step \in {3, 5, 7, 8}
  /\ Len(ctxs) >= 2
  /\ \/ /\ rev = "counter"
        /\ \E r \in Outcomes(asn1_sequence_next, ctxs[2]) :
             CommitStep("sequence_next", 2, r, step + 1)
     \/ /\ rev = "pointer"
        /\ \E r \in Outcomes(asn1_sequence_next_ptr, ctxs[2]) :
             CommitStep("sequence_next", 2, r, step + 1)

NextE == IterEnter \/ IterGet \/ IterNext

SpecE == InitE /\ [][NextE]_vars

(***************************************************************************)
(* What the encoding says, read off the buffer independently of the        *)
(* decoder: the element a context is positioned at.                        *)
(***************************************************************************)
GetOps == {"constructed_get", "sequence_get", "set_get", "oid_get",
           "octet_string_get"}

Called == last.op # "none"

End(c) == Pos(c) + Remaining(c)

Byte(q) == Mem(q, J0)

\* (tag & 0xE0) == 0xA0 is 0xA0..0xBF; (tag & 0x7F) == 0x30 is 0x30 or 0xB0.
TagMatches(op, tag) ==
  CASE op = "constructed_get" -> tag \in 160..191
    [] op = "sequence_get" -> tag \in {48, 176}
    [] op = "set_get" -> tag \in {49, 177}
    [] op = "oid_get" -> tag = 6
    [] op = "octet_string_get" -> tag = 4
    [] OTHER -> FALSE

\* The big-endian value of the n octets at offsets q .. q + n - 1.
RECURSIVE BigEndian(_, _)
BigEndian(q, n) ==
  IF n = 0 THEN 0 ELSE BigEndian(q, n - 1) * 256 + Byte(q + n - 1)

\* The length field at offset q of a range that ends at offset end.
LengthField(q, end) ==
  IF q >= end THEN [ok |-> FALSE, val |-> 0, size |-> 0]
  ELSE IF Byte(q) < 128 THEN [ok |-> TRUE, val |-> Byte(q), size |-> 1]
  ELSE IF Byte(q) - 128 >= SizeofSizeT \/ q + 1 + (Byte(q) - 128) > end
  THEN [ok |-> FALSE, val |-> 0, size |-> 0]
  ELSE [ok |-> TRUE, val |-> BigEndian(q + 1, Byte(q) - 128),
        size |-> 1 + (Byte(q) - 128)]

Header(c) == LengthField(Pos(c) + 1, End(c))

ContentOff(c) == Pos(c) + 1 + Header(c).size

ContentLen(c) == Header(c).val

\* c is positioned at an element whose length field decodes and whose
\* content fits in what remains after the tag + length header.
WellFormed(c) ==
  /\ Remaining(c) > 0
  /\ Header(c).ok
  /\ ContentOff(c) + ContentLen(c) <= End(c)

TagAt(c) == Byte(Pos(c))

AppType(c) == IF rev = "counter" THEN asn1_constructed_type(c)
              ELSE asn1_constructed_type_ptr(c)

(***************************************************************************)
(* C1: every byte a call reads lies at an index inside the caller's        *)
(* buffer, for every buffer and every sequence of extractor calls on the   *)
(* root context and the contexts derived from it.                          *)
(***************************************************************************)
C1_ReadsInsideBuffer == last.reads \subseteq InBuf

(***************************************************************************)
(* C2: whenever an extractor reports failure, the context it was called    *)
(* on has the same position and the same remaining count as before.        *)
(***************************************************************************)
C2_FailureLeavesCursor ==
  (Called /\ ~last.ok) =>
    /\ Pos(last.post) = Pos(last.pre)
    /\ Remaining(last.post) = Remaining(last.pre)

(***************************************************************************)
(* C3: every range yielded on success (child context or leaf view) lies    *)
(* within the bytes that remained in the parent at the time of the call,   *)
(* hence every context lies inside the root buffer.                        *)
(***************************************************************************)
C3_YieldWithinParent ==
  /\ (Called /\ last.ok /\ last.kind \in {"child", "view"}) =>
       /\ Pos(last.pre) <= last.off
       /\ last.off + last.len <= End(last.pre)
       /\ last.off + last.len <= Len(buf)
  /\ \A k \in 1..Len(ctxs) : 0 <= Pos(ctxs[k]) /\ End(ctxs[k]) <= Len(buf)

(***************************************************************************)
(* C4: a get extractor succeeds if and only if the byte at the position    *)
(* exists and matches its tag pattern, the length field decodes, and the   *)
(* decoded length is at most what remains after the tag + length header;   *)
(* sequence_get on [0x30,0x05,0x06,0x01,0x2A] fails.                       *)
(***************************************************************************)
C4_SuccessIff ==
  /\ last.op \in GetOps =>
       (last.ok <=> /\ Remaining(last.pre) > 0
                    /\ TagMatches(last.op, TagAt(last.pre))
                    /\ WellFormed(last.pre))
  /\ (buf = ScenarioB /\ last.op = "sequence_get" /\ last.pre = Root)
       => ~last.ok

C4_Witness ==
  /\ buf = ScenarioB /\ last.op = "sequence_get" /\ last.pre = Root
  /\ last.dl.called /\ last.dl.ok /\ last.dl.len = 5
  /\ ~last.ok

(***************************************************************************)
(* C5: on success the yielded range is exactly the element's content: it   *)
(* starts at the first byte after the tag + length header and its length   *)
(* is the decoded length.  On [0x30,0x03,0x06,0x01,0x2A] sequence_get      *)
(* yields a child with remaining 3 and oid_get on that child yields the    *)
(* offset of the byte 0x2A with length 1.                                  *)
(***************************************************************************)
C5_ExactContent ==
  /\ (last.op \in GetOps /\ last.ok) =>
       /\ last.off = ContentOff(last.pre)
       /\ last.len = ContentLen(last.pre)
       /\ last.kind = (IF last.op \in {"oid_get", "octet_string_get"}
                       THEN "view" ELSE "child")
       /\ last.new # 0 =>
            /\ Pos(ctxs[last.new]) = ContentOff(last.pre)
            /\ Remaining(ctxs[last.new]) = ContentLen(last.pre)
  /\ (buf = ScenarioA /\ last.op = "sequence_get" /\ last.pre = Root) =>
       /\ last.ok
       /\ last.new = 2
       /\ Pos(ctxs[2]) = 2
       /\ Remaining(ctxs[2]) = 3
  /\ (buf = ScenarioA /\ last.op = "oid_get" /\ Pos(last.pre) = 2
        /\ Remaining(last.pre) = 3) =>
       /\ last.ok
       /\ Byte(last.off) = 42
       /\ last.off = 4
       /\ last.len = 1

C5_Witness ==
  /\ buf = ScenarioA
  /\ Len(ctxs) >= 2 /\ last.i = 2
  /\ last.op = "oid_get" /\ last.ok
  /\ last.off = 4 /\ last.len = 1

(***************************************************************************)
(* C6 as stated: constructed_get on a tag byte 0xA0 followed by a          *)
(* well-formed length that fits succeeds with application tag number 0;    *)
(* on a tag byte 0xBF it fails, whatever follows.                          *)
(***************************************************************************)
C6_Original ==
  last.op = "constructed_get" =>
    /\ (TagAt(last.pre) = 160 /\ WellFormed(last.pre)) =>
         (last.ok /\ last.app_type = 0)
    /\ (Remaining(last.pre) > 0 /\ TagAt(last.pre) = 191) => ~last.ok

(***************************************************************************)
(* C6 amended: constructed_get on a tag byte 0xA0 followed by a            *)
(* well-formed length that fits succeeds with application tag number 0;    *)
(* on a tag byte 0xBF followed by a well-formed length that fits it        *)
(* succeeds too, with application tag number 31, and it fails on 0xBF      *)
(* only when the length field does not decode or does not fit.             *)
(***************************************************************************)
C6_ConstructedTag ==
  (last.op = "constructed_get" /\ Remaining(last.pre) > 0) =>
    /\ TagAt(last.pre) = 160 =>
         /\ last.ok <=> WellFormed(last.pre)
         /\ last.ok => last.app_type = 0
         /\ last.new # 0 => AppType(ctxs[last.new]) = 0
    /\ TagAt(last.pre) = 191 =>
         /\ last.ok <=> WellFormed(last.pre)
         /\ last.ok => last.app_type = 31
         /\ last.new # 0 => AppType(ctxs[last.new]) = 31

C6_Witness ==
  /\ last.op = "constructed_get" /\ TagAt(last.pre) = 191
  /\ last.ok /\ last.new # 0
  /\ AppType(ctxs[last.new]) = 31

\* Offset of the k-th OCTET STRING of the body (the body starts at 2).
RECURSIVE ElemOff(_)
ElemOff(k) ==
  IF k = 1 THEN 2 ELSE ElemOff(k - 1) + 2 + Byte(ElemOff(k - 1) + 1)

(***************************************************************************)
(* C7: on a SET body of exactly three well-formed OCTET STRINGs, calling   *)
(* octet_string_get then sequence_next three times on the same context:    *)
(* each octet_string_get succeeds and returns the 1st, 2nd, 3rd string,    *)
(* each sequence_next succeeds, and a fourth sequence_next fails.          *)
(***************************************************************************)
C7_IterateSetOfThree ==
  /\ step = 2 => (last.ok /\ last.new = 2)
  /\ \A k \in 1..3 :
       /\ step = 2 * k + 1 =>
            /\ last.op = "octet_string_get" /\ last.ok
            /\ last.off = ElemOff(k) + 2
            /\ last.len = Byte(ElemOff(k) + 1)
       /\ step = 2 * k + 2 => (last.op = "sequence_next" /\ last.ok)
  /\ step = 9 => (last.op = "sequence_next" /\ ~last.ok)

\* One step of probing: last is the failed call of X, last' the call of Y.
C8_Probe ==
  ( /\ last.op \in GetOps /\ ~last.ok
    /\ WellFormed(last.pre)
    /\ ~TagMatches(last.op, TagAt(last.pre))
    /\ last'.op \in GetOps /\ last'.op # last.op /\ last'.i = last.i
    /\ TagMatches(last'.op, TagAt(last.pre)) )
  => /\ last'.ok
     /\ last'.off = ContentOff(last.pre)
     /\ last'.len = ContentLen(last.pre)

(***************************************************************************)
(* C8: CHOICE-style probing: when a get extractor X fails on a context     *)
(* positioned at a well-formed element because the tag does not match X,   *)
(* the matching extractor Y applied to the same context immediately        *)
(* afterwards succeeds and yields that element's content.                  *)
(***************************************************************************)
C8_ChoiceProbing == [][C8_Probe]_vars

(***************************************************************************)
(* C9: decode_length rejects every long form whose first octet announces   *)
(* N >= sizeof(size_t) following octets, whatever follows and however      *)
(* many bytes remain, and none of the N octets is taken before it does.    *)
(***************************************************************************)
C9_OverflowGuard ==
  ( /\ last.dl.called
    /\ last.dl.at < End(last.pre)
    /\ Byte(last.dl.at) >= 128
    /\ Byte(last.dl.at) - 128 >= SizeofSizeT )
  => /\ ~last.dl.ok
     /\ ~last.ok
     /\ last.dl.used <= 1
     /\ \A q \in last.reads : q <= last.dl.at
     /\ Pos(last.post) <= last.dl.at + 1

C9_Witness ==
  /\ buf = ScenarioC
  /\ last.op = "sequence_get" /\ last.dl.called /\ last.dl.at = 1
  /\ Byte(1) = 132
  /\ ~last.ok

(***************************************************************************)
(* C10: the single length octet 0x80 decodes as length 0 and exactly that  *)
(* one octet is consumed; an extractor applied to an element with this     *)
(* length field succeeds with an empty range.                              *)
(***************************************************************************)
C10_IndefiniteIsZero ==
  ( /\ last.dl.called
    /\ last.dl.at < End(last.pre)
    /\ Byte(last.dl.at) = 128 )
  => /\ last.dl.ok /\ last.dl.len = 0 /\ last.dl.used = 1
     /\ last.ok
     /\ last.op \in GetOps => (last.len = 0 /\ last.off = last.dl.at + 1)
     /\ last.new # 0 => Remaining(ctxs[last.new]) = 0
     /\ last.op = "sequence_next" => Pos(last.post) = last.dl.at + 1

C10_Witness ==
  /\ last.op \in GetOps /\ last.dl.called
  /\ last.dl.at < End(last.pre) /\ Byte(last.dl.at) = 128
  /\ last.ok /\ last.len = 0

(***************************************************************************)
(* C11: skip_bytes(n) on a cursor with remaining r: if n <= r it succeeds, *)
(* the position advances by exactly n and remaining becomes r - n; if      *)
(* n > r it fails and position and remaining are both unchanged.  No       *)
(* partial advance is reachable, for small n and for the largest n.        *)
(***************************************************************************)
C11_SkipAllOrNothing ==
  last.op = "skip_bytes" =>
    /\ ctxs[last.i] = last.post
    /\ last.arg <= Remaining(last.pre) =>
         /\ last.ok
         /\ Pos(last.post) = Pos(last.pre) + last.arg
         /\ Remaining(last.post) = Remaining(last.pre) - last.arg
    /\ last.arg > Remaining(last.pre) =>
         /\ ~last.ok
         /\ Pos(last.post) = Pos(last.pre)
         /\ Remaining(last.post) = Remaining(last.pre)

C11_Witness ==
  /\ last.op = "skip_bytes" /\ last.arg = IntMax
  /\ Pos(last.pre) > 0 /\ Remaining(last.pre) > 0
  /\ ~last.ok

\* One call of peek_byte: last' is the call, last the call before it.
C12_Peek ==
  last'.op = "peek_byte" =>
    /\ Pos(last'.post) = Pos(last'.pre)
    /\ Remaining(last'.post) = Remaining(last'.pre)
    /\ ctxs'[last'.i] = ctxs[last'.i]
    /\ last'.byte = -1 <=> Remaining(last'.pre) = 0
    /\ (last.op = "peek_byte" /\ last.i = last'.i) =>
         /\ last'.byte = last.byte
         /\ Pos(last'.post) = Pos(last.pre)
         /\ Remaining(last'.post) = Remaining(last.pre)

(***************************************************************************)
(* C12: peek_byte never changes the cursor: after any number of            *)
(* consecutive peek_byte calls the position and remaining are the same as  *)
(* before the first, every call returns what the call before it returned,  *)
(* and it returns -1 (empty) exactly when remaining is 0.                  *)
(***************************************************************************)
C12_PeekIdempotent == [][C12_Peek]_vars

C12_Witness ==
  /\ last.op = "peek_byte" /\ last.run = MaxRun
  /\ last.byte = Byte(Pos(last.pre))
  /\ Pos(last.pre) > 0 /\ Remaining(last.post) > 0

(***************************************************************************)
(* C13: whatever calls are made on a context, successful or failing, its   *)
(* remaining count never increases and never goes below zero, and          *)
(* position + remaining stays the end of the range the context was created *)
(* over; so remaining never exceeds the number of buffer bytes present     *)
(* from the position onward.                                               *)
(***************************************************************************)
C13_RemainingBounded ==
  /\ \A k \in 1..Len(ctxs) :
       /\ 0 <= Remaining(ctxs[k])
       /\ 0 <= Pos(ctxs[k])
       /\ Remaining(ctxs[k]) <= Len(buf) - Pos(ctxs[k])
  /\ Called =>
       /\ ctxs[last.i] = last.post
       /\ Remaining(last.post) <= Remaining(last.pre)
       /\ Pos(last.post) >= Pos(last.pre)
       /\ End(last.post) = End(last.pre)
       /\ last.new # 0 =>
            End(ctxs[last.new]) = last.off + last.len

C13_Witness ==
  /\ rev = "pointer" /\ last.i >= 2
  /\ last.op = "sequence_next" /\ last.ok
  /\ Remaining(last.pre) > 2 /\ Remaining(last.post) = 0

(***************************************************************************)
(* C14: decode_length returns the exact value of the length field: for a   *)
(* short-form octet L it returns L and consumes 1 byte; for a long form    *)
(* with N < sizeof(size_t) following octets, all of them inside the        *)
(* cursor, it returns their big-endian value and consumes 1 + N bytes; if  *)
(* fewer than N octets remain in the cursor it fails.                      *)
(***************************************************************************)
C14_ExactLength ==
  (last.dl.called /\ last.dl.at < End(last.pre)) =>
    LET L == Byte(last.dl.at)
        N == L - 128
    IN /\ L < 128 =>
            (last.dl.ok /\ last.dl.len = L /\ last.dl.used = 1)
       /\ (L >= 128 /\ N < SizeofSizeT
             /\ last.dl.at + 1 + N <= End(last.pre)) =>
            /\ last.dl.ok
            /\ last.dl.len = BigEndian(last.dl.at + 1, N)
            /\ last.dl.used = 1 + N
       /\ (L >= 128 /\ N < SizeofSizeT
             /\ last.dl.at + 1 + N > End(last.pre)) =>
            ~last.dl.ok

(***************************************************************************)
(* C15: sequence_next on a context positioned at the first byte of an      *)
(* element, whatever its tag, with a k-byte well-formed length field and   *)
(* a declared content length L that fits in what remains after the header, *)
(* succeeds and advances by exactly 1 + k + L bytes (remaining decreases   *)
(* by as much), which is the first byte of the following sibling; it       *)
(* fails when the context is empty, the length field is truncated or       *)
(* rejected, or L exceeds what remains after the header.                   *)
(***************************************************************************)
C15_NextSibling ==
  last.op = "sequence_next" =>
    /\ last.ok <=> WellFormed(last.pre)
    /\ last.ok =>
         LET size == 1 + Header(last.pre).size + ContentLen(last.pre) IN
         /\ Pos(last.post) = Pos(last.pre) + size
         /\ Remaining(last.post) = Remaining(last.pre) - size
         /\ Pos(last.post) = ContentOff(last.pre) + ContentLen(last.pre)
         /\ ctxs[last.i] = last.post

C15_Witness ==
  /\ buf = ScenarioLong /\ rev = "pointer"
  /\ last.op = "sequence_next" /\ last.ok
  /\ Pos(last.pre) = 0 /\ Header(last.pre).size = 2
  /\ Pos(last.post) = 5 /\ Remaining(last.post) = 0

====
